---- MODULE Spec2Model ----
(***************************************************************************)
(* Model of the YouTube extractor service (src/app.py): a FastAPI          *)
(* application with the handlers /health, /extract and /info, served by    *)
(* one uvicorn event loop.  /extract and /info call subprocess.run on      *)
(* yt-dlp and turn its exit status and standard output into a response.    *)
(*                                                                         *)
(* Text is a sequence of one-character strings.  A fixed piece of text     *)
(* that the code writes as a literal is a single element of the sequence.  *)
(***************************************************************************)
EXTENDS Integers, Sequences, FiniteSets, TLC

----------------------------------------------------------------------------
(* Bounds of the model. *)

\* longest standard output of the /extract child process
MaxExtractOut == 6
\* longest standard output of the /info child process
MaxInfoOut == 7
\* longest standard error of a child process
MaxErr == 1
\* number of client requests of the server specification
NumReq == 2

(* Program constants. *)

\* subprocess.run(..., timeout=60) in extract_audio, in seconds
ExtractTimeout == 60
\* subprocess.run(..., timeout=30) in get_video_info, in seconds
InfoTimeout == 30

----------------------------------------------------------------------------
(* Characters the child process writes. *)

NL == "\n"
ExtractAlphabet == {"a", "1", "-", " ", NL}
InfoAlphabet == {"a", "1", " ", NL}
ErrAlphabet == {"E"}

StringsOver(alphabet, n) == UNION {[1..k -> alphabet] : k \in 0..n}

Min(S) == CHOOSE x \in S : \A y \in S : x <= y
Max(S) == CHOOSE x \in S : \A y \in S : x >= y

----------------------------------------------------------------------------
(* Python's str and int operations used by the handlers. *)

\* str.isspace of one character
IsSpace(c) == c \in {" ", NL, "\t", "\r"}

\* str.strip(): the text without its leading and trailing whitespace
Strip(s) ==
    LET keep == {i \in 1..Len(s) : ~IsSpace(s[i])}
    IN  IF keep = {} THEN <<>> ELSE SubSeq(s, Min(keep), Max(keep))

\* str.split('\n'): the pieces between the newlines, empty pieces included
RECURSIVE Split(_)
Split(s) ==
    LET nl == {i \in 1..Len(s) : s[i] = NL}
    IN  IF nl = {} THEN <<s>>
        ELSE <<SubSeq(s, 1, Min(nl) - 1)>> \o Split(SubSeq(s, Min(nl) + 1, Len(s)))

Digits == <<"0", "1", "2", "3", "4", "5", "6", "7", "8", "9">>
IsDigit(c) == \E d \in 1..Len(Digits) : Digits[d] = c
DigitVal(c) == (CHOOSE d \in 1..Len(Digits) : Digits[d] = c) - 1

\* the digits of an integer literal: digits, single underscores between them
IsDigitString(s) ==
    /\ s # <<>>
    /\ \A i \in 1..Len(s) : IsDigit(s[i]) \/ s[i] = "_"
    /\ IsDigit(s[1]) /\ IsDigit(s[Len(s)])
    /\ \A i \in 1..(Len(s) - 1) : ~(s[i] = "_" /\ s[i + 1] = "_")

RECURSIVE DigitsValue(_)
DigitsValue(s) ==
    IF s = <<>> THEN 0
    ELSE IF s[Len(s)] = "_" THEN DigitsValue(SubSeq(s, 1, Len(s) - 1))
    ELSE 10 * DigitsValue(SubSeq(s, 1, Len(s) - 1)) + DigitVal(s[Len(s)])

\* int(text): <<n>> for an integer literal, <<>> when int raises ValueError
IntOf(text) ==
    LET s      == Strip(text)
        signed == s # <<>> /\ s[1] \in {"-", "+"}
        body   == IF signed THEN Tail(s) ELSE s
    IN  IF ~IsDigitString(body) THEN <<>>
        ELSE IF signed /\ s[1] = "-" THEN << 0 - DigitsValue(body) >>
        ELSE << DigitsValue(body) >>

----------------------------------------------------------------------------
(* What subprocess.run gives back to a handler. *)

\* CompletedProcess(returncode, stdout, stderr)
Completed(code, out, err) ==
    [tag |-> "completed", returncode |-> code, stdout |-> out, stderr |-> err,
     seconds |-> 0]
\* subprocess.TimeoutExpired raised after `timeout` seconds, the child killed
TimedOut(timeout) ==
    [tag |-> "timeout", returncode |-> 0, stdout |-> <<>>, stderr |-> <<>>,
     seconds |-> timeout]
\* the child could not be started (yt-dlp is missing): FileNotFoundError
SpawnError ==
    [tag |-> "spawn_error", returncode |-> 0, stdout |-> <<>>, stderr |-> <<>>,
     seconds |-> 0]
NoResult ==
    [tag |-> "none", returncode |-> 0, stdout |-> <<>>, stderr |-> <<>>,
     seconds |-> 0]

(* Exceptions.  text is str(e). *)

\* str(e) of an HTTPException: Starlette releases with HTTPException.__str__
\* give "<status_code>: <detail>", the releases before it give "".
HTTPException(status_code, detail, strKind) ==
    [type |-> "HTTPException", status_code |-> status_code, detail |-> detail,
     text |-> IF strKind = "status_detail"
              THEN <<ToString(status_code), ": ">> \o detail
              ELSE <<>>]
TimeoutExpired(timeout) ==
    [type |-> "TimeoutExpired", status_code |-> 0, detail |-> <<>>,
     text |-> <<"Command '['yt-dlp', ...]' timed out after ", ToString(timeout),
                " seconds">>]
FileNotFoundError ==
    [type |-> "FileNotFoundError", status_code |-> 0, detail |-> <<>>,
     text |-> <<"[Errno 2] No such file or directory: 'yt-dlp'">>]

\* the exception subprocess.run raises for a result, if it raises
RunException(res) ==
    IF res.tag = "timeout" THEN TimeoutExpired(res.seconds) ELSE FileNotFoundError

NoException == [type |-> "none", status_code |-> 0, detail |-> <<>>, text |-> <<>>]
Return(body) == [raised |-> FALSE, exc |-> NoException, body |-> body]
Raise(e) == [raised |-> TRUE, exc |-> e, body |-> [success |-> FALSE]]

\* the HTTP response FastAPI sends for an HTTPException leaving the handler
ErrorResponse(e) ==
    [status |-> e.status_code, detail |-> e.detail, body |-> [success |-> FALSE]]
\* the HTTP response FastAPI sends for a returned value
OkResponse(body) == [status |-> 200, detail |-> <<>>, body |-> body]
NoResponse == [status |-> 0, detail |-> <<>>, body |-> [success |-> FALSE]]

----------------------------------------------------------------------------
(* POST /extract *)

\* ParseDuration with a default of 0 in place of None
ParseDuration_Zero(duration_str) ==
    IF IntOf(duration_str) = <<>> THEN <<0>> ELSE IntOf(duration_str)

\* duration = None; try: duration = int(duration_str); except ValueError: pass
ParseDuration(duration_str) == IntOf(duration_str)

\* ExtractTry with the indices of url and title exchanged
ExtractTry_Swapped(res, strKind) ==
    IF res.tag # "completed" THEN Raise(RunException(res))
    ELSE IF res.returncode # 0
    THEN Raise(HTTPException(400, <<"YouTube extraction failed: ">> \o res.stderr,
                             strKind))
    ELSE LET output_lines == Split(Strip(res.stdout))
         IN  IF Len(output_lines) < 3
             THEN Raise(HTTPException(400, <<"Invalid output from yt-dlp">>, strKind))
             ELSE Return([success  |-> TRUE,
                          url      |-> Strip(output_lines[2]),
                          title    |-> Strip(output_lines[1]),
                          duration |-> ParseDuration(Strip(output_lines[3])),
                          error    |-> <<>>])

\* the body of the try statement of extract_audio, from subprocess.run on
ExtractTry(res, strKind) ==
    IF res.tag # "completed" THEN Raise(RunException(res))
    ELSE IF res.returncode # 0
    THEN Raise(HTTPException(400, <<"YouTube extraction failed: ">> \o res.stderr,
                             strKind))
    ELSE LET output_lines == Split(Strip(res.stdout))
         IN  IF Len(output_lines) < 3
             THEN Raise(HTTPException(400, <<"Invalid output from yt-dlp">>, strKind))
             ELSE Return([success  |-> TRUE,
                          url      |-> Strip(output_lines[1]),
                          title    |-> Strip(output_lines[2]),
                          duration |-> ParseDuration(Strip(output_lines[3])),
                          error    |-> <<>>])

\* extract_audio without the except subprocess.TimeoutExpired clause
extract_audio_NoTimeoutClause(res, strKind) ==
    LET o == ExtractTry(res, strKind)
    IN  IF ~o.raised THEN OkResponse(o.body)
        ELSE ErrorResponse(HTTPException(500,
                 <<"Internal server error: ">> \o o.exc.text, strKind))

\* extract_audio: the try statement with its two except clauses.  The second
\* clause, except Exception, also catches the HTTPExceptions raised in the body.
extract_audio(res, strKind) ==
    LET o == ExtractTry(res, strKind)
    IN  IF ~o.raised THEN OkResponse(o.body)
        ELSE IF o.exc.type = "TimeoutExpired"
        THEN ErrorResponse(HTTPException(408,
                 <<"Request timed out. YouTube may be blocking the request.">>,
                 strKind))
        ELSE ErrorResponse(HTTPException(500,
                 <<"Internal server error: ">> \o o.exc.text, strKind))

----------------------------------------------------------------------------
(* POST /info *)

\* InfoTry with the indices of duration and uploader exchanged
InfoTry_Swapped(res, strKind) ==
    IF res.tag # "completed" THEN Raise(RunException(res))
    ELSE IF res.returncode # 0
    THEN Raise(HTTPException(400, <<"Failed to get video info: ">> \o res.stderr,
                             strKind))
    ELSE LET output_lines == Split(Strip(res.stdout))
         IN  IF Len(output_lines) < 4
             THEN Raise(HTTPException(400, <<"Invalid output from yt-dlp">>, strKind))
             ELSE Return([success    |-> TRUE,
                          title      |-> Strip(output_lines[1]),
                          duration   |-> Strip(output_lines[3]),
                          uploader   |-> Strip(output_lines[2]),
                          view_count |-> Strip(output_lines[4])])

\* the body of the try statement of get_video_info, from subprocess.run on
InfoTry(res, strKind) ==
    IF res.tag # "completed" THEN Raise(RunException(res))
    ELSE IF res.returncode # 0
    THEN Raise(HTTPException(400, <<"Failed to get video info: ">> \o res.stderr,
                             strKind))
    ELSE LET output_lines == Split(Strip(res.stdout))
         IN  IF Len(output_lines) < 4
             THEN Raise(HTTPException(400, <<"Invalid output from yt-dlp">>, strKind))
             ELSE Return([success    |-> TRUE,
                          title      |-> Strip(output_lines[1]),
                          duration   |-> Strip(output_lines[2]),
                          uploader   |-> Strip(output_lines[3]),
                          view_count |-> Strip(output_lines[4])])

\* get_video_info with the except subprocess.TimeoutExpired clause of extract_audio
get_video_info_TimeoutClause(res, strKind) ==
    LET o == InfoTry(res, strKind)
    IN  IF ~o.raised THEN OkResponse(o.body)
        ELSE IF o.exc.type = "TimeoutExpired"
        THEN ErrorResponse(HTTPException(408,
                 <<"Request timed out. YouTube may be blocking the request.">>,
                 strKind))
        ELSE ErrorResponse(HTTPException(500,
                 <<"Internal server error: ">> \o o.exc.text, strKind))

\* get_video_info: the try statement with its single except Exception clause
get_video_info(res, strKind) ==
    LET o == InfoTry(res, strKind)
    IN  IF ~o.raised THEN OkResponse(o.body)
        ELSE ErrorResponse(HTTPException(500,
                 <<"Internal server error: ">> \o o.exc.text, strKind))

\* GET /health
health_check == OkResponse([status |-> "healthy"])

Handler(k, res, strKind) ==
    IF k = "extract" THEN extract_audio(res, strKind) ELSE get_video_info(res, strKind)

Timeout(k) == IF k = "extract" THEN ExtractTimeout ELSE InfoTimeout

----------------------------------------------------------------------------
(* The server: uvicorn.run(app) runs one event loop in one thread.  The      *)
(* handlers are coroutines (async def) without an await, so a handler holds  *)
(* the loop from its first statement to its response, the blocking call of   *)
(* subprocess.run included.                                                  *)

VARIABLES
    pc,          \* per request: "idle", "queued", "waiting", "exited", "responded"
    kind,        \* per request: "extract", "info", "health" (once sent)
    loop,        \* the request whose handler holds the event loop, 0 for none
    elapsed,     \* per request: seconds its child process has been running
    result,      \* per request: what subprocess.run gave back
    response,    \* per request: the HTTP response sent
    runs,        \* per request: calls of subprocess.run so far
    sent,        \* per request: responses sent so far
    httpExcStr   \* which str(HTTPException) the installed Starlette has

vars == <<pc, kind, loop, elapsed, result, response, runs, sent, httpExcStr>>

Requests == DOMAIN pc
Kinds == {"extract", "info", "health"}

\* outputs a child of the handler of kind k can end with, within the bounds
Outputs(k) ==
    IF k = "extract" THEN StringsOver(ExtractAlphabet, MaxExtractOut)
    ELSE StringsOver(InfoAlphabet, MaxInfoOut)
Errors == StringsOver(ErrAlphabet, MaxErr)
\* exit statuses of the child
ExitCodes == {0, 1}
\* a few outputs, for the specification with several requests
SampleOutputs ==
    { <<>>, <<"a", NL, "a", NL, "1", NL>>, <<"a", NL, "1", NL, "a", NL, "1", NL>> }

InitOf(R) ==
    /\ pc = [r \in R |-> "idle"]
    /\ kind = [r \in R |-> "none"]
    /\ loop = 0
    /\ elapsed = [r \in R |-> 0]
    /\ result = [r \in R |-> NoResult]
    /\ response = [r \in R |-> NoResponse]
    /\ runs = [r \in R |-> 0]
    /\ sent = [r \in R |-> 0]
    /\ httpExcStr \in {"empty", "status_detail"}

\* a client sends request r to endpoint k; it waits for the event loop
Arrive(r, k) ==
    /\ pc[r] = "idle"
    /\ pc' = [pc EXCEPT ![r] = "queued"]
    /\ kind' = [kind EXCEPT ![r] = k]
    /\ UNCHANGED <<loop, elapsed, result, response, runs, sent, httpExcStr>>

\* the handler of r runs to its end and the response is sent
Respond(r, resp) ==
    /\ pc' = [pc EXCEPT ![r] = "responded"]
    /\ response' = [response EXCEPT ![r] = resp]
    /\ sent' = [sent EXCEPT ![r] = @ + 1]
    /\ elapsed' = [elapsed EXCEPT ![r] = 0]
    /\ loop' = 0

\* GET /health: the loop runs health_check
HealthCheck(r) ==
    /\ pc[r] = "queued" /\ kind[r] = "health"
    /\ loop = 0
    /\ Respond(r, health_check)
    /\ UNCHANGED <<kind, result, runs, httpExcStr>>

\* the loop runs the handler of r up to subprocess.run, which starts the child
\* and blocks the thread of the loop
StartRun(r) ==
    /\ pc[r] = "queued" /\ kind[r] \in {"extract", "info"}
    /\ loop = 0
    /\ loop' = r
    /\ pc' = [pc EXCEPT ![r] = "waiting"]
    /\ runs' = [runs EXCEPT ![r] = @ + 1]
    /\ elapsed' = [elapsed EXCEPT ![r] = 0]
    /\ UNCHANGED <<kind, result, response, sent, httpExcStr>>

\* the loop runs the handler of r; subprocess.run cannot start the child and
\* raises, and the handler runs to its end
SpawnFails(r) ==
    /\ pc[r] = "queued" /\ kind[r] \in {"extract", "info"}
    /\ loop = 0
    /\ runs' = [runs EXCEPT ![r] = @ + 1]
    /\ result' = [result EXCEPT ![r] = SpawnError]
    /\ Respond(r, Handler(kind[r], SpawnError, httpExcStr))
    /\ UNCHANGED <<kind, httpExcStr>>

\* one second passes while the child of r runs
Tick(r) ==
    /\ pc[r] = "waiting"
    /\ elapsed[r] < Timeout(kind[r])
    /\ elapsed' = [elapsed EXCEPT ![r] = @ + 1]
    /\ UNCHANGED <<pc, kind, loop, result, response, runs, sent, httpExcStr>>

\* the child of r exits within the time bound
ChildExits(r) ==
    /\ pc[r] = "waiting"
    /\ elapsed[r] <= Timeout(kind[r])
    /\ pc' = [pc EXCEPT ![r] = "exited"]
    /\ elapsed' = [elapsed EXCEPT ![r] = 0]
    /\ UNCHANGED <<kind, loop, result, response, runs, sent, httpExcStr>>

\* RunReturns with one more attempt after a failed first one
RunReturns_Retry(r, outs) ==
    /\ pc[r] = "exited" /\ loop = r
    /\ \E code \in ExitCodes, out \in outs, err \in Errors :
        LET resp == Handler(kind[r], Completed(code, out, err), httpExcStr)
        IN  IF resp.status # 200 /\ runs[r] < 2
            THEN /\ pc' = [pc EXCEPT ![r] = "waiting"]
                 /\ runs' = [runs EXCEPT ![r] = @ + 1]
                 /\ UNCHANGED <<loop, elapsed, result, response, sent>>
            ELSE /\ result' = [result EXCEPT ![r] = Completed(code, out, err)]
                 /\ Respond(r, resp)
                 /\ UNCHANGED runs
    /\ UNCHANGED <<kind, httpExcStr>>

\* subprocess.run returns the exit status, the output (one of outs) and the
\* diagnostics of the child of r, and the handler runs to its end
RunReturns(r, outs) ==
    /\ pc[r] = "exited" /\ loop = r
    /\ \E code \in ExitCodes, out \in outs, err \in Errors :
        /\ result' = [result EXCEPT ![r] = Completed(code, out, err)]
        /\ Respond(r, Handler(kind[r], Completed(code, out, err), httpExcStr))
    /\ UNCHANGED <<kind, runs, httpExcStr>>

\* the child of r is still running when the time bound is reached;
\* subprocess.run kills it and raises TimeoutExpired, and the handler runs to
\* its end
RunTimesOut(r) ==
    /\ pc[r] = "waiting" /\ loop = r
    /\ elapsed[r] = Timeout(kind[r])
    /\ result' = [result EXCEPT ![r] = TimedOut(Timeout(kind[r]))]
    /\ Respond(r, Handler(kind[r], TimedOut(Timeout(kind[r])), httpExcStr))
    /\ UNCHANGED <<kind, runs, httpExcStr>>

(* One request, every output of the child within the bounds. *)
Init == InitOf({1})

Next ==
    \/ \E r \in Requests, k \in Kinds : Arrive(r, k)
    \/ \E r \in Requests : HealthCheck(r)
    \/ \E r \in Requests : StartRun(r)
    \/ \E r \in Requests : SpawnFails(r)
    \/ \E r \in Requests : Tick(r)
    \/ \E r \in Requests : ChildExits(r)
    \/ \E r \in Requests : RunReturns(r, Outputs(kind[r]))
    \/ \E r \in Requests : RunTimesOut(r)

Spec == Init /\ [][Next]_vars

(* Several requests at one server, a few outputs of the child. *)
InitServer == InitOf(1..NumReq)

NextServer ==
    \/ \E r \in Requests, k \in Kinds : Arrive(r, k)
    \/ \E r \in Requests : HealthCheck(r)
    \/ \E r \in Requests : StartRun(r)
    \/ \E r \in Requests : SpawnFails(r)
    \/ \E r \in Requests : Tick(r)
    \/ \E r \in Requests : ChildExits(r)
    \/ \E r \in Requests : RunReturns(r, SampleOutputs)
    \/ \E r \in Requests : RunTimesOut(r)

SpecServer == InitServer /\ [][NextServer]_vars

----------------------------------------------------------------------------
(* Notions the properties are stated in. *)

\* the first position of text at or after i that holds a newline, or Len + 1
RECURSIVE LineEnd(_, _)
LineEnd(text, i) ==
    IF i > Len(text) \/ text[i] = NL THEN i ELSE LineEnd(text, i + 1)

\* the lines of a text: each ends at a newline, the last at the end of the text
RECURSIVE TextLines(_)
TextLines(text) ==
    IF text = <<>> THEN <<>>
    ELSE LET e == LineEnd(text, 1)
         IN  <<SubSeq(text, 1, e - 1)>> \o TextLines(SubSeq(text, e + 1, Len(text)))

Blank(c) == c = " " \/ c = NL

\* a text without the blanks and newlines at its two ends
RECURSIVE Trim(_)
Trim(text) ==
    IF text = <<>> THEN <<>>
    ELSE IF Blank(Head(text)) THEN Trim(Tail(text))
    ELSE IF Blank(text[Len(text)]) THEN Trim(SubSeq(text, 1, Len(text) - 1))
    ELSE text

\* part occurs in text, element for element
Contains(text, part) ==
    \E i \in 0..(Len(text) - Len(part)) : SubSeq(text, i + 1, i + Len(part)) = part

\* request r of kind k has its response
Done(r, k) == pc[r] = "responded" /\ kind[r] = k
\* the child of r exited within the time bound with status zero / non-zero
ExitedZero(r) == result[r].tag = "completed" /\ result[r].returncode = 0
ExitedNonZero(r) == result[r].tag = "completed" /\ result[r].returncode # 0
IsIntegerText(line) == IntOf(line) # <<>>

----------------------------------------------------------------------------
(* Properties. *)

\* C1: /extract, the child exits within the time bound with a non-zero status:
\* the response has status 400 and its message contains the child's stderr.
C1_NonZeroExitIs400 ==
    \A r \in Requests :
        (Done(r, "extract") /\ ExitedNonZero(r))
        => /\ response[r].status = 400
           /\ Contains(response[r].detail, result[r].stderr)

\* C2: /extract, the child's stdout has fewer than three lines, whatever its
\* exit status: the response has status 400 and cites invalid output.
C2_FewLinesIs400 ==
    \A r \in Requests :
        (Done(r, "extract") /\ result[r].tag = "completed"
            /\ Len(TextLines(result[r].stdout)) < 3)
        => /\ response[r].status = 400
           /\ Contains(response[r].detail, <<"Invalid output from yt-dlp">>)

\* C3: /extract answers 408 exactly when the child ran into the 60-second
\* bound; a timeout is never answered with 500.
C3_TimeoutIs408 ==
    \A r \in Requests :
        Done(r, "extract")
        => /\ (result[r].tag = "timeout") <=> (response[r].status = 408)
           /\ result[r].tag = "timeout"
              => /\ result[r].seconds = 60
                 /\ response[r].status # 500
                 /\ response[r].detail =
                      <<"Request timed out. YouTube may be blocking the request.">>

C3_Witness ==
    \E r \in Requests :
        Done(r, "extract") /\ result[r].tag = "timeout" /\ response[r].status = 408

\* C4 as stated: /extract, exit status zero and at least three lines of stdout:
\* success with url the first line, title the second, and duration the integer
\* value of the third when it is an integer.
C4_LinesVerbatim ==
    \A r \in Requests :
        LET lines == TextLines(result[r].stdout)
        IN  (Done(r, "extract") /\ ExitedZero(r) /\ Len(lines) >= 3)
            => /\ response[r].status = 200
               /\ response[r].body.success
               /\ response[r].body.url = lines[1]
               /\ response[r].body.title = lines[2]
               /\ IsIntegerText(lines[3]) => response[r].body.duration = IntOf(lines[3])

\* C4 amended: /extract, exit status zero and at least three lines in stdout
\* without the whitespace at its two ends: success with url the first of these
\* lines and title the second, each without the whitespace at its ends, and
\* duration the integer value of the third when it is an integer.
C4_TrimmedLines ==
    \A r \in Requests :
        LET lines == TextLines(Trim(result[r].stdout))
        IN  (Done(r, "extract") /\ ExitedZero(r) /\ Len(lines) >= 3)
            => /\ response[r].status = 200
               /\ response[r].body.success
               /\ response[r].body.url = Trim(lines[1])
               /\ response[r].body.title = Trim(lines[2])
               /\ IsIntegerText(lines[3]) => response[r].body.duration = IntOf(lines[3])

C4_Witness ==
    \E r \in Requests :
        LET lines == TextLines(Trim(result[r].stdout))
        IN  /\ Done(r, "extract") /\ ExitedZero(r) /\ Len(lines) >= 3
            /\ lines[1] # <<>> /\ lines[2] # <<>> /\ lines[1] # lines[2]
            /\ IsIntegerText(lines[3])
            /\ response[r].status = 200
            /\ response[r].body.duration # <<>>

\* C5 as stated: /extract, exit status zero and a third line of stdout that is
\* not an integer: success with url and title from lines one and two and no
\* duration; never an error.
C5_NonIntegerThirdLine ==
    \A r \in Requests :
        LET lines == TextLines(result[r].stdout)
        IN  (Done(r, "extract") /\ ExitedZero(r) /\ Len(lines) >= 3
                /\ ~IsIntegerText(lines[3]))
            => /\ response[r].status = 200
               /\ response[r].body.success
               /\ response[r].body.url = Trim(lines[1])
               /\ response[r].body.title = Trim(lines[2])
               /\ response[r].body.duration = <<>>

\* C5 amended: /extract, exit status zero and, in stdout without the whitespace
\* at its two ends, at least three lines of which the third is not an integer:
\* success with url and title from lines one and two and no duration; never an
\* error.
C5_NonIntegerTrimmedThirdLine ==
    \A r \in Requests :
        LET lines == TextLines(Trim(result[r].stdout))
        IN  (Done(r, "extract") /\ ExitedZero(r) /\ Len(lines) >= 3
                /\ ~IsIntegerText(lines[3]))
            => /\ response[r].status = 200
               /\ response[r].body.success
               /\ response[r].body.url = Trim(lines[1])
               /\ response[r].body.title = Trim(lines[2])
               /\ response[r].body.duration = <<>>

C5_Witness ==
    \E r \in Requests :
        LET lines == TextLines(Trim(result[r].stdout))
        IN  /\ Done(r, "extract") /\ ExitedZero(r) /\ Len(lines) >= 3
            /\ Trim(lines[3]) # <<>> /\ ~IsIntegerText(lines[3])
            /\ response[r].status = 200
            /\ response[r].body.url # <<>>
            /\ response[r].body.duration = <<>>

\* C6 as stated: /info, exit status zero and at least four lines of stdout:
\* success with title, duration, uploader and view_count the lines one to four,
\* unaltered.
C6_InfoLinesVerbatim ==
    \A r \in Requests :
        LET lines == TextLines(result[r].stdout)
        IN  (Done(r, "info") /\ ExitedZero(r) /\ Len(lines) >= 4)
            => /\ response[r].status = 200
               /\ response[r].body.success
               /\ response[r].body.title = lines[1]
               /\ response[r].body.duration = lines[2]
               /\ response[r].body.uploader = lines[3]
               /\ response[r].body.view_count = lines[4]

\* C6 amended: /info, exit status zero and at least four lines in stdout without
\* the whitespace at its two ends: success with title, duration, uploader and
\* view_count the first four of these lines as text, each without the
\* whitespace at its ends.
C6_InfoTrimmedLines ==
    \A r \in Requests :
        LET lines == TextLines(Trim(result[r].stdout))
        IN  (Done(r, "info") /\ ExitedZero(r) /\ Len(lines) >= 4)
            => /\ response[r].status = 200
               /\ response[r].body.success
               /\ response[r].body.title = Trim(lines[1])
               /\ response[r].body.duration = Trim(lines[2])
               /\ response[r].body.uploader = Trim(lines[3])
               /\ response[r].body.view_count = Trim(lines[4])

C6_Witness ==
    \E r \in Requests :
        LET lines == TextLines(Trim(result[r].stdout))
        IN  /\ Done(r, "info") /\ ExitedZero(r) /\ Len(lines) >= 4
            /\ \A i \in 1..4 : Trim(lines[i]) # <<>>
            /\ response[r].status = 200
            /\ response[r].body.view_count # <<>>

\* C7: /info answers 400 to a non-zero exit status and to fewer than four lines
\* of stdout, and 500 only to other exceptions.
C7_InfoClientErrorsAre400 ==
    \A r \in Requests :
        Done(r, "info")
        => /\ ExitedNonZero(r) => response[r].status = 400
           /\ (ExitedZero(r) /\ Len(TextLines(result[r].stdout)) < 4)
              => response[r].status = 400
           /\ response[r].status = 500 => result[r].tag # "completed"

\* C8: /info never answers 408; when the child runs into the 30-second bound
\* the response is 500 and its message includes the text of the exception.
C8_InfoTimeoutIs500 ==
    \A r \in Requests :
        Done(r, "info")
        => /\ response[r].status # 408
           /\ result[r].tag = "timeout"
              => /\ result[r].seconds = 30
                 /\ response[r].status = 500
                 /\ Contains(response[r].detail, RunException(result[r]).text)
                 /\ RunException(result[r]).text # <<>>

C8_Witness ==
    \E r \in Requests :
        Done(r, "info") /\ result[r].tag = "timeout" /\ response[r].status = 500

\* C9: while one request waits for its child process, another request that has
\* arrived can start its own child, or be answered if it is a /health request.
C9_ServedInParallel ==
    \A r, q \in Requests :
        (r # q /\ pc[r] = "waiting" /\ pc[q] = "queued")
        => ENABLED (StartRun(q) \/ HealthCheck(q))

\* C10: a request calls subprocess.run at most once and gets exactly one
\* response; a request that was answered, with an error or not, starts no
\* further child.
C10_NoRetry ==
    \A r \in Requests :
        /\ runs[r] <= 1
        /\ sent[r] <= 1
        /\ pc[r] \in {"waiting", "exited"} => (runs[r] = 1 /\ sent[r] = 0)
        /\ pc[r] \in {"idle", "queued"} => (runs[r] = 0 /\ sent[r] = 0)
        /\ pc[r] = "responded"
           => /\ sent[r] = 1
              /\ kind[r] # "health" => runs[r] = 1
              /\ ~ENABLED (StartRun(r) \/ SpawnFails(r) \/ RunTimesOut(r)
                              \/ ChildExits(r) \/ HealthCheck(r))

C10_Witness ==
    \E r, q \in Requests :
        /\ r # q
        /\ Done(r, "extract") /\ response[r].status = 500 /\ runs[r] = 1
        /\ Done(q, "info") /\ result[q].tag = "timeout" /\ runs[q] = 1 /\ sent[q] = 1

====
